---------------------------- MODULE Spec2Model ----------------------------
(***************************************************************************)
(* Model of src/ai_news_notifier.py: one batch run that reads three        *)
(* secrets, fetches news, summarises every article with Groq and posts one *)
(* digest to a Discord webhook.                                            *)
(*                                                                         *)
(* Python values are modelled as follows.  A dict is a TLA+ record whose   *)
(* DOMAIN is the set of keys that are present; None/null is Null; a JSON   *)
(* document is tagged with its type.  The Japanese literals of the source  *)
(* are written in ASCII: "unknown" is the category of line 53, "error" the *)
(* category of line 86, and the five labels of the prompt (line 65) are    *)
(* the members of FixedCategories.  An exception is the name of its class. *)
(***************************************************************************)
EXTENDS Naturals, Sequences, FiniteSets

\* Longest article list the provider returns in the model (the request asks
\* for pageSize=5, line 29; the code itself never limits the length).
MaxArticles == 3

Null == "<None>"

\* Python truthiness of an optional string: None and "" are falsy.
Truthy(v) == v \notin {Null, ""}

\* dict.get(key, default)
Get(d, k, default) == IF k \in DOMAIN d THEN d[k] ELSE default

-----------------------------------------------------------------------------
(* Configuration, lines 8-14 *)

\* What os.getenv can give: None (unset), the empty string, or a value.
EnvValues == {Null, "", "set"}

Configs == [NEWS_API_KEY : EnvValues, GROQ_API_KEY : EnvValues,
            DISCORD_WEBHOOK_URL : EnvValues]

\* A mutation of ConfigOk: the webhook URL is left out of the check.
ConfigOkTwoOfThree(c) == Truthy(c.NEWS_API_KEY) /\ Truthy(c.GROQ_API_KEY)

\* all([NEWS_API_KEY, GROQ_API_KEY, DISCORD_WEBHOOK_URL]), line 13
ConfigOk(c) ==
    /\ Truthy(c.NEWS_API_KEY)
    /\ Truthy(c.GROQ_API_KEY)
    /\ Truthy(c.DISCORD_WEBHOOK_URL)

-----------------------------------------------------------------------------
(* Exceptions *)

\* The classes below requests.exceptions.RequestException that the calls of
\* this program raise.  requests' own JSONDecodeError (raised by
\* response.json()) derives from RequestException and json.JSONDecodeError.
IsRequestException(e) ==
    e \in {"ConnectionError", "HTTPError", "requests.JSONDecodeError"}

\* response.raise_for_status(): HTTPError for a 4xx or 5xx status.
RaisesForStatus(status) == status >= 400 /\ status < 600

-----------------------------------------------------------------------------
(* Articles *)

\* publishedAt values.  shape "Z" is 2024-05-01T10:30:00Z, the only shape the
\* format of line 108 accepts; "fraction" is 2024-05-02T11:45:00.000Z, which
\* is ISO-8601 as well.
TimeZ        == [date |-> "2024-05-01", hm |-> "10:30", shape |-> "Z"]
TimeFraction == [date |-> "2024-05-02", hm |-> "11:45", shape |-> "fraction"]

\* The article records the provider may return.  isdict = FALSE is a list
\* entry that is not a JSON object (a string).
ArticleFull ==
    [isdict |-> TRUE, title |-> "A", url |-> "uA", publishedAt |-> TimeZ,
     content |-> "cA", description |-> "dA"]
ArticleDescOnly ==
    [isdict |-> TRUE, title |-> "B", url |-> "uB", publishedAt |-> TimeZ,
     content |-> Null, description |-> "dB"]
ArticleNoText ==
    [isdict |-> TRUE, title |-> "C", url |-> "uC", publishedAt |-> TimeZ,
     content |-> ""]
ArticleNullText ==
    [isdict |-> TRUE, title |-> "D", url |-> "uD", publishedAt |-> TimeZ,
     content |-> Null, description |-> Null]
ArticleOtherIso ==
    [isdict |-> TRUE, title |-> "E", url |-> "uE", publishedAt |-> TimeFraction,
     content |-> "cE", description |-> "dE"]
ArticleNoTitle ==
    [isdict |-> TRUE, url |-> "uF", publishedAt |-> TimeZ,
     content |-> "cF", description |-> "dF"]
ArticleNotDict == [isdict |-> FALSE]

ArticlePool ==
    {ArticleFull, ArticleDescOnly, ArticleNoText, ArticleNullText,
     ArticleOtherIso, ArticleNoTitle, ArticleNotDict}

ArticleLists == UNION {[1..n -> ArticlePool] : n \in 1..MaxArticles}


\* article.get('content') or article.get('description', ''), line 139
ContentToSummarize(article) ==
    IF Truthy(Get(article, "content", Null))
    THEN article.content
    ELSE Get(article, "description", "")

\* article['title'], article['url'], article['publishedAt'], lines 144-146:
\* a KeyError when one of the keys is absent.
HasArticleKeys(article) == {"title", "url", "publishedAt"} \subseteq DOMAIN article

-----------------------------------------------------------------------------
(* News Source, lines 16-47 *)

JsonNotParseable == [json |-> FALSE]
JsonArray        == [json |-> TRUE, type |-> "array"]
JsonNull         == [json |-> TRUE, type |-> "null"]
JsonList(items)  == [json |-> TRUE, type |-> "array", items |-> items]
JsonObject(f)    == [json |-> TRUE, type |-> "object", fields |-> f]

\* What requests.get(url) can meet: no response at all, or a status and a body.
NewsResponses ==
    {[net |-> "down"]}
    \cup {[net |-> "up", status |-> st, body |-> JsonObject([status |-> "error"])]
            : st \in {401, 500}}
    \cup {[net |-> "up", status |-> 200, body |-> b] :
            b \in {JsonNotParseable, JsonArray,
                   JsonObject([status |-> "ok"]),
                   JsonObject([status |-> "ok", articles |-> JsonNull]),
                   JsonObject([status |-> "ok", articles |-> JsonList(<<>>)])}}
    \cup {[net |-> "up", status |-> 200,
           body |-> JsonObject([status |-> "ok", articles |-> JsonList(as)])] :
            as \in ArticleLists}

\* The exception the try block of lines 33-36 raises on a response, "none"
\* when it raises nothing.  A JSON array has no .get (line 36).
GetNewsException(resp) ==
    IF resp.net = "down" THEN "ConnectionError"
    ELSE IF RaisesForStatus(resp.status) THEN "HTTPError"
    ELSE IF ~resp.body.json THEN "requests.JSONDecodeError"
    ELSE IF resp.body.type # "object" THEN "AttributeError"
    ELSE "none"

\* The except clauses of lines 42 and 45.
GetNewsCaught(e) == IsRequestException(e) \/ e = "json.JSONDecodeError"

\* The value get_ai_news returns when it returns: lines 36-41 on a parsed
\* object, [] from the except clauses.
GetNewsResult(resp) ==
    IF GetNewsException(resp) # "none" THEN <<>>
    ELSE LET articles == Get(resp.body.fields, "articles", JsonList(<<>>))
         IN  IF articles.type = "null" THEN <<>> ELSE articles.items

-----------------------------------------------------------------------------
(* Summarizer, lines 50-86 *)

FixedCategories ==
    {"technology-development", "business-application", "ethics-regulation",
     "research", "other"}

\* The two fixed results, lines 53 and 86.
UnknownFallback == JsonObject([summary |-> <<"empty-content">>, category |-> "unknown"])
ErrorFallback   == JsonObject([summary |-> <<"summary-error">>, category |-> "error"])

\* The summary a well-behaved completion gives for a text.
SummaryOf(text) == <<"summary-of", text>>

\* What client.chat.completions.create can do for a text: raise (network,
\* quota, ...), or return a message content that json.loads rejects, or
\* that it parses into some JSON document, of the asked shape or not.
GroqResponses(text) ==
    {[raised |-> TRUE], [raised |-> FALSE, content |-> JsonNotParseable]}
    \cup {[raised |-> FALSE, content |-> c] :
            c \in {JsonObject([summary |-> SummaryOf(text), category |-> "research"]),
                   JsonObject([summary |-> SummaryOf(text), category |-> "sports"]),
                   JsonObject([summary |-> SummaryOf(text), category |-> ""]),
                   JsonObject([summary |-> SummaryOf(text)]),
                   JsonObject([category |-> "research"]),
                   JsonArray}}

\* The generation capability failed: the call raised or json.loads raises.
GenerationFailed(g) == g.raised \/ ~g.content.json

NoCall == [raised |-> FALSE, nocall |-> TRUE]

\* A mutation of NeedsGroq: the guard of line 52 is gone.
NeedsGroqAlways(article_content) == TRUE

\* The guard of line 52: Groq is called only for a truthy text.
NeedsGroq(article_content) == Truthy(article_content)

\* summarize_and_categorize_with_groq(article_content), with g what Groq
\* does when it is called.
summarize_and_categorize_with_groq(article_content, g) ==
    IF ~NeedsGroq(article_content) THEN UnknownFallback
    ELSE IF GenerationFailed(g) THEN ErrorFallback
    ELSE g.content

-----------------------------------------------------------------------------
(* Digest formatting and delivery, lines 88-126 *)

\* datetime.strptime(p, '%Y-%m-%dT%H:%M:%SZ') raises ValueError on any other
\* shape.
StrptimeOk(p) == p.shape = "Z"

\* strptime(...).strftime('%Y-%m-%d %H:%M'), after "Published at: "
Footer(p) == <<"Published at: ", p.date, " ", p.hm>>

\* The exception building one embed raises (lines 95-110), "none" if none:
\* indexing a list with a string, a missing key, an unparseable publishedAt.
EmbedException(info) ==
    IF info.summary_data.type # "object" THEN "TypeError"
    ELSE IF "summary" \notin DOMAIN info.summary_data.fields THEN "KeyError"
    ELSE IF "category" \notin DOMAIN info.summary_data.fields THEN "KeyError"
    ELSE IF ~StrptimeOk(info.publishedAt) THEN "ValueError"
    ELSE "none"

\* The embed of lines 95-110.
Embed(info) ==
    [title       |-> <<"news-mark ", info.title>>,
     url         |-> info.url,
     description |-> info.summary_data.fields.summary,
     color       |-> "0x5865F2",
     fields      |-> <<[name   |-> "category",
                        value  |-> <<"code-quote", info.summary_data.fields.category,
                                     "code-quote">>,
                        inline |-> TRUE]>>,
     footer      |-> [text |-> Footer(info.publishedAt)]]

\* The entries of a sequence, last first.
RECURSIVE ReverseSeq(_)
ReverseSeq(s) == IF s = <<>> THEN <<>> ELSE Append(ReverseSeq(Tail(s)), Head(s))

\* A mutation of Embeds: the embeds come out newest-last.
EmbedsReversed(aws) == ReverseSeq([k \in 1..Len(aws) |-> Embed(aws[k])])

\* The list the loop of lines 93-111 builds, one embed per entry, in order.
Embeds(aws) == [k \in 1..Len(aws) |-> Embed(aws[k])]

\* The first exception of the loop of lines 93-111, "none" if it completes.
RECURSIVE EmbedsException(_)
EmbedsException(aws) ==
    IF aws = <<>> THEN "none"
    ELSE IF EmbedException(Head(aws)) # "none" THEN EmbedException(Head(aws))
    ELSE EmbedsException(Tail(aws))

\* datetime.now().strftime('%Y-%m-%d'), line 117
RunDates == {"2024-05-02", "2024-05-03"}

\* The payload of lines 114-119.
Payload(aws, today) ==
    [username   |-> "AI News Notifier",
     avatar_url |-> "https://i.imgur.com/4M34hi2.png",
     content    |-> <<"header ", today>>,
     embeds     |-> Embeds(aws)]

\* What requests.post can meet.
PostOutcomes == {[net |-> "down"]} \cup {[net |-> "up", status |-> st] : st \in {204, 500}}

\* The exception the try block of lines 122-123 raises.
PostException(o) ==
    IF o.net = "down" THEN "ConnectionError"
    ELSE IF RaisesForStatus(o.status) THEN "HTTPError"
    ELSE "none"

\* A mutation of PostCaught: only transport errors are caught.
PostCaughtTransportOnly(e) == e = "ConnectionError"

\* The except clause of line 125.
PostCaught(e) == IsRequestException(e)

-----------------------------------------------------------------------------
(* The run: module level, then main(), lines 128-153 *)

\* A mutation of MainHasNews: the early return of lines 132-134 is gone.
MainHasNewsAlways(news) == TRUE

\* not articles, line 132
MainHasNews(news) == news # <<>>

\* A mutation of LoopFinished: the loop stops one article early.
LoopFinishedEarly(k, news) == k >= Len(news)

\* The for loop of line 137 is exhausted; k is the next position.
LoopFinished(k, news) == k > Len(news)

VARIABLES
    cfg,            \* the three environment values, lines 8-10
    pc,             \* where the run is
    error,          \* the unhandled exception that ended the run, or "none"
    newsGets,       \* number of requests.get calls made
    newsError,      \* the exception get_ai_news met, caught or not
    newsReturned,   \* get_ai_news has returned to main
    articles,       \* what get_ai_news returned
    i,              \* position of the for loop of line 137
    articles_with_summaries,
    summarizerCalls,\* positions summarize_and_categorize_with_groq ran for
    groqCalls,      \* positions a Groq completion was requested for
    genLog,         \* per position, what Groq did (NoCall if not called)
    payload,        \* <<the payload of line 114>> once built
    posts,          \* the requests.post attempts, with their outcome
    notifyError     \* the exception requests.post met

vars ==
    <<cfg, pc, error, newsGets, newsError, newsReturned, articles, i, articles_with_summaries,
      summarizerCalls, groqCalls, genLog, payload, posts, notifyError>>

Init ==
    /\ cfg \in Configs
    /\ pc = "Start"
    /\ error = "none"
    /\ newsGets = 0
    /\ newsError = "none"
    /\ newsReturned = FALSE
    /\ articles = <<>>
    /\ i = 1
    /\ articles_with_summaries = <<>>
    /\ summarizerCalls = <<>>
    /\ groqCalls = <<>>
    /\ genLog = <<>>
    /\ payload = <<>>
    /\ posts = <<>>
    /\ notifyError = "none"

\* Lines 8-14: the module-level check of the three secrets.
LoadConfig ==
    /\ pc = "Start"
    /\ IF ConfigOk(cfg)
       THEN pc' = "Fetching" /\ error' = error
       ELSE pc' = "ConfigError" /\ error' = "ValueError"
    /\ UNCHANGED <<cfg, newsGets, newsError, newsReturned, articles, i, articles_with_summaries,
                   summarizerCalls, groqCalls, genLog, payload, posts, notifyError>>

\* Line 131: get_ai_news(), lines 16-47, on whatever the provider answers.
GetAiNews ==
    /\ pc = "Fetching"
    /\ \E resp \in NewsResponses :
         LET e == GetNewsException(resp) IN
           /\ newsGets' = newsGets + 1
           /\ newsError' = e
           /\ IF e # "none" /\ ~GetNewsCaught(e)
              THEN pc' = "Crashed" /\ error' = e /\ articles' = articles
                   /\ newsReturned' = FALSE
              ELSE pc' = "Fetched" /\ error' = error /\ newsReturned' = TRUE
                   /\ articles' = GetNewsResult(resp)
    /\ UNCHANGED <<cfg, i, articles_with_summaries, summarizerCalls, groqCalls,
                   genLog, payload, posts, notifyError>>

\* Lines 132-133: the test of the fetched list.
MainCheckNews ==
    /\ pc = "Fetched"
    /\ pc' = IF MainHasNews(articles) THEN "Summarizing" ELSE "NoNews"
    /\ UNCHANGED <<cfg, error, newsGets, newsError, newsReturned, articles, i,
                   articles_with_summaries, summarizerCalls, groqCalls, genLog,
                   payload, posts, notifyError>>

\* Line 134: the early return.
MainReturnNoNews ==
    /\ pc = "NoNews"
    /\ pc' = "Done"
    /\ UNCHANGED <<cfg, error, newsGets, newsError, newsReturned, articles, i,
                   articles_with_summaries, summarizerCalls, groqCalls, genLog,
                   payload, posts, notifyError>>

\* Lines 137-149: one pass of the loop, the call of the summarizer included.
SummarizeArticle ==
    /\ pc = "Summarizing"
    /\ ~LoopFinished(i, articles)
    /\ LET article == articles[i] IN
         IF ~article.isdict
         THEN /\ pc' = "Crashed" /\ error' = "AttributeError"
              /\ UNCHANGED <<i, articles_with_summaries, summarizerCalls,
                             groqCalls, genLog>>
         ELSE LET content_to_summarize == ContentToSummarize(article) IN
              \E g \in (IF NeedsGroq(content_to_summarize)
                        THEN GroqResponses(content_to_summarize) ELSE {NoCall}) :
                /\ summarizerCalls' = Append(summarizerCalls, i)
                /\ groqCalls' = IF NeedsGroq(content_to_summarize)
                                THEN Append(groqCalls, i) ELSE groqCalls
                /\ genLog' = Append(genLog, g)
                /\ IF HasArticleKeys(article)
                   THEN /\ articles_with_summaries' =
                             Append(articles_with_summaries,
                                    [title        |-> article.title,
                                     url          |-> article.url,
                                     publishedAt  |-> article.publishedAt,
                                     summary_data |->
                                        summarize_and_categorize_with_groq(
                                            content_to_summarize, g)])
                        /\ i' = i + 1
                        /\ pc' = pc /\ error' = error
                   ELSE /\ pc' = "Crashed" /\ error' = "KeyError"
                        /\ UNCHANGED <<i, articles_with_summaries>>
    /\ UNCHANGED <<cfg, newsGets, newsError, newsReturned, articles, payload, posts, notifyError>>

\* The loop ends; line 151 guards the call of send_to_discord.
LoopExit ==
    /\ pc = "Summarizing"
    /\ LoopFinished(i, articles)
    /\ pc' = IF articles_with_summaries # <<>> THEN "Formatting" ELSE "Done"
    /\ UNCHANGED <<cfg, error, newsGets, newsError, newsReturned, articles, i,
                   articles_with_summaries, summarizerCalls, groqCalls, genLog,
                   payload, posts, notifyError>>

\* send_to_discord, lines 93-119: the embeds and the payload.
BuildPayload ==
    /\ pc = "Formatting"
    /\ LET e == EmbedsException(articles_with_summaries) IN
         IF e # "none"
         THEN pc' = "Crashed" /\ error' = e /\ payload' = payload
         ELSE \E today \in RunDates :
                /\ payload' = <<Payload(articles_with_summaries, today)>>
                /\ pc' = "Notifying" /\ error' = error
    /\ UNCHANGED <<cfg, newsGets, newsError, newsReturned, articles, i, articles_with_summaries,
                   summarizerCalls, groqCalls, genLog, posts, notifyError>>

\* send_to_discord, lines 121-126, then line 153: the one POST.
PostToDiscord ==
    /\ pc = "Notifying"
    /\ \E o \in PostOutcomes :
         LET e == PostException(o) IN
           /\ posts' = Append(posts, [payload |-> payload[1], outcome |-> o])
           /\ notifyError' = e
           /\ IF e = "none" \/ PostCaught(e)
              THEN pc' = "Done" /\ error' = error
              ELSE pc' = "Crashed" /\ error' = e
    /\ UNCHANGED <<cfg, newsGets, newsError, newsReturned, articles, i, articles_with_summaries,
                   summarizerCalls, groqCalls, genLog, payload>>

Next ==
    \/ LoadConfig
    \/ GetAiNews
    \/ MainCheckNews
    \/ MainReturnNoNews
    \/ SummarizeArticle
    \/ LoopExit
    \/ BuildPayload
    \/ PostToDiscord

Spec == Init /\ [][Next]_vars

-----------------------------------------------------------------------------
(* Vocabulary of the properties *)

Range(f) == {f[k] : k \in DOMAIN f}

\* A secret is missing or empty.
SecretMissing(v) == v = Null \/ v = ""

AllSecretsPresent ==
    /\ ~SecretMissing(cfg.NEWS_API_KEY)
    /\ ~SecretMissing(cfg.GROQ_API_KEY)
    /\ ~SecretMissing(cfg.DISCORD_WEBHOOK_URL)

\* Both text fields of an article are empty or absent.
FieldEmpty(article, k) == k \notin DOMAIN article \/ article[k] = Null \/ article[k] = ""
EmptyBody(article) ==
    article.isdict /\ FieldEmpty(article, "content") /\ FieldEmpty(article, "description")

\* Groq was called for position k and the call raised or gave unparseable text.
GenFailedAt(k) ==
    /\ k \in Range(groqCalls)
    /\ (genLog[k].raised \/ ~genLog[k].content.json)

\* The delivery of a post failed: transport error or a status outside 2xx.
DeliveryFailed(post) ==
    post.outcome.net = "down" \/ post.outcome.status < 200 \/ post.outcome.status > 299

CodeQuoted(category) == <<"code-quote", category, "code-quote">>

Sentinels == {"unknown", "error"}

-----------------------------------------------------------------------------
(* Properties *)

\* C1: in a run where get_ai_news() returned an empty list (no articles, or a
\* failed fetch), the summarizer is never invoked, Groq is never called,
\* nothing is posted, nothing is raised, and the run goes through NoNews to
\* Done: it is at Fetched, NoNews or Done, and can step until it is Done.
C1_EmptyNewsEndsQuietly ==
    (newsReturned /\ articles = <<>>) =>
        /\ summarizerCalls = <<>> /\ groqCalls = <<>>
        /\ payload = <<>> /\ posts = <<>>
        /\ error = "none"
        /\ pc \in {"Fetched", "NoNews", "Done"}
        /\ (pc # "Done" => ENABLED Next)

\* A failed fetch ended in Done.
C1_Witness ==
    pc = "Done" /\ newsReturned /\ articles = <<>> /\ newsError = "ConnectionError"

\* C2 (as claimed): whenever the generation capability failed on some
\* fetched articles, each of them carries the "error" fallback, the run is
\* not aborted, and when it has ended one payload has been sent with an embed
\* for every fetched article, the failing ones showing the error fallback and
\* the others what Groq returned for them.
C2_FailuresIsolatedAndAllSent ==
    (newsReturned /\ \A k \in DOMAIN articles : HasArticleKeys(articles[k])) =>
      ((\E k \in 1..Len(genLog) : GenFailedAt(k)) =>
        /\ \A k \in 1..Len(articles_with_summaries) :
             GenFailedAt(k) => articles_with_summaries[k].summary_data = ErrorFallback
        /\ pc # "Crashed"
        /\ pc = "Done" =>
             /\ Len(posts) = 1
             /\ Len(posts[1].payload.embeds) = Len(articles)
             /\ \A k \in 1..Len(articles) :
                  LET embed == posts[1].payload.embeds[k] IN
                    IF GenFailedAt(k)
                    THEN /\ embed.description = ErrorFallback.fields.summary
                         /\ embed.fields[1].value = CodeQuoted("error")
                    ELSE k \in Range(groqCalls) =>
                           embed.description = genLog[k].content.fields.summary)

\* C3: an article whose content and description are both empty or absent
\* gets the fixed "unknown" fallback without any Groq call, and its embed,
\* once built and when posted, shows that summary and category.
C3_EmptyBodyUnknownNoCall ==
    \A k \in 1..Len(articles_with_summaries) :
        EmptyBody(articles[k]) =>
          /\ articles_with_summaries[k].summary_data = UnknownFallback
          /\ k \notin Range(groqCalls)
          /\ \A p \in Range(payload) \cup {post.payload : post \in Range(posts)} :
                /\ p.embeds[k].description = <<"empty-content">>
                /\ p.embeds[k].fields[1].value = CodeQuoted("unknown")

\* A digest with an empty-bodied article was posted.
C3_Witness ==
    /\ posts # <<>>
    /\ \E k \in 1..Len(articles) : EmptyBody(articles[k])
    /\ \E k \in 1..Len(articles) : ~EmptyBody(articles[k])

\* C4: every payload handed to the webhook has one embed per fetched article,
\* the k-th built from the k-th article (its title and url) and from the
\* summary and category the summarizer returned for that article.
C4_EmbedsFollowFetchOrder ==
    \A post \in Range(posts) :
        /\ Len(post.payload.embeds) = Len(articles)
        /\ \A k \in 1..Len(articles) :
             LET embed  == post.payload.embeds[k]
                 result == summarize_and_categorize_with_groq(
                               ContentToSummarize(articles[k]), genLog[k])
             IN  /\ embed.title = <<"news-mark ", articles[k].title>>
                 /\ embed.url = articles[k].url
                 /\ embed.description = result.fields.summary
                 /\ embed.fields[1].value = CodeQuoted(result.fields.category)
                 /\ embed.footer.text =
                       <<"Published at: ", articles[k].publishedAt.date, " ",
                         articles[k].publishedAt.hm>>

\* Three different articles were posted.
C4_Witness ==
    /\ Len(posts) = 1 /\ Len(articles) = MaxArticles
    /\ \A j, k \in 1..Len(articles) : j # k => articles[j].title # articles[k].title
    /\ \E j, k \in 1..Len(articles) :
         posts[1].payload.embeds[j].description # posts[1].payload.embeds[k].description

\* C5 (as claimed): every result the summarizer returned is an object whose
\* category is one of the five fixed labels or a sentinel, never empty.
C5_CategoryInClosedSet ==
    \A k \in 1..Len(articles_with_summaries) :
        LET result == articles_with_summaries[k].summary_data IN
          /\ result.type = "object"
          /\ "category" \in DOMAIN result.fields
          /\ result.fields.category \in FixedCategories \cup Sentinels

\* C6 (as claimed): with a valid configuration, once the news have been
\* fetched (here: article records that hold title, url and publishedAt), no
\* unhandled exception ends the run, whatever Groq and the webhook answer.
C6_OnlyConfigErrorsAreFatal ==
    (/\ AllSecretsPresent
     /\ newsReturned
     /\ \A k \in DOMAIN articles : HasArticleKeys(articles[k]))
        => (pc # "Crashed" /\ error = "none")

\* C7: when a delivery failed, there was exactly one attempt, nothing was
\* raised, the run is Done, and nothing further happens (no retry).
C7_FailedDeliveryStillDone ==
    \A j \in 1..Len(posts) :
        DeliveryFailed(posts[j]) =>
          /\ Len(posts) = 1
          /\ error = "none"
          /\ pc = "Done"
          /\ ~ENABLED Next

\* The webhook answered 500.
C7_Witness ==
    /\ Len(posts) = 1 /\ posts[1].outcome.net = "up" /\ posts[1].outcome.status = 500
    /\ pc = "Done"

\* C8 (as claimed): whatever the provider answers, get_ai_news returns, and
\* returns an empty list when it met an error.
C8_GetNewsNeverThrows ==
    newsGets > 0 =>
        /\ newsReturned
        /\ (newsError # "none" => articles = <<>>)

\* C9: when one of the three secrets is missing or empty, the run stops at
\* the configuration error and no GET, no summarizer or Groq call and no
\* POST is ever made.
C9_MissingSecretAbortsFirst ==
    ~AllSecretsPresent =>
        /\ pc \in {"Start", "ConfigError"}
        /\ (pc = "ConfigError" <=> error = "ValueError")
        /\ newsGets = 0 /\ ~newsReturned
        /\ summarizerCalls = <<>> /\ groqCalls = <<>>
        /\ payload = <<>> /\ posts = <<>>

\* Only the webhook URL is empty, and the run has aborted.
C9_Witness ==
    /\ pc = "ConfigError"
    /\ cfg.NEWS_API_KEY = "set" /\ cfg.GROQ_API_KEY = "set"
    /\ cfg.DISCORD_WEBHOOK_URL = ""

\* C10: there is at most one POST; the summarizer runs for the fetched
\* articles one by one in fetch order; and a payload is built or posted only
\* when the summarizer has run for every fetched article and each has its
\* result attached.
C10_OnePostAfterAllEnriched ==
    /\ Len(posts) <= 1
    /\ summarizerCalls = [k \in 1..Len(summarizerCalls) |-> k]
    /\ Len(articles_with_summaries) <= Len(summarizerCalls)
    /\ (payload # <<>> \/ posts # <<>>) =>
          /\ summarizerCalls = [k \in 1..Len(articles) |-> k]
          /\ Len(articles_with_summaries) = Len(articles)
          /\ \A p \in Range(payload) \cup {post.payload : post \in Range(posts)} :
                Len(p.embeds) = Len(articles)

\* A digest of fallbacks only was posted.
C10_Witness ==
    /\ Len(posts) = 1 /\ Len(articles) = MaxArticles
    /\ \A k \in 1..Len(articles) :
         articles_with_summaries[k].summary_data \in {UnknownFallback, ErrorFallback}
    /\ \E k \in 1..Len(articles) :
         articles_with_summaries[k].summary_data = ErrorFallback

=============================================================================
